---- MODULE Spec2Model ----
(***************************************************************************)
(* GitHub authorization provider (cmd/frontend/internal/authz/github).     *)
(*                                                                         *)
(* Provider.RepoPerms resolves which candidate repositories one external   *)
(* account may read: the account's explicit repositories (cached under     *)
(* u:<AccountID>, else paged from ListViewerRepositories) and the public   *)
(* repositories among the rest (cached under r:..., else fetched one by    *)
(* one with GetRepositoryByNodeID).  Every cache operation and every       *)
(* remote call of a RepoPerms call is one step of the model.               *)
(***************************************************************************)
EXTENDS Integers, Sequences, FiniteSets, TLC

(* ------------------------------ bounds --------------------------------- *)

\* RepoPerms calls started in one behaviour.
MaxCalls == 2
\* Pages the remote host may spread an account's repository list over.
MaxPages == 2
\* Misbehaviours of the cache store in one behaviour (an entry evicted, an
\* entry written by a foreign writer, a batch read of the wrong length).
MaxFaults == 1
\* The age up to which the entries of the store are followed.
MaxAge == 4

(* --------------------------- program constants ------------------------- *)

\* Provider.cacheTTL, recorded beside every payload the provider writes.
cacheTTL == 3

(* ------------------------------ universe ------------------------------- *)

GitHubService == [ServiceType |-> "github", ServiceID |-> "https://github.com/"]
OtherService == [ServiceType |-> "github", ServiceID |-> "https://ghe.example.com/"]

\* authz.Repo: a local repository name and its external repository spec.
Repo(name, id, svc) ==
    [RepoName |-> name,
     ExternalRepoSpec |-> [ID |-> id, ServiceType |-> svc.ServiceType,
                           ServiceID |-> svc.ServiceID]]

RepoA == Repo("A", "a", GitHubService)
RepoB == Repo("B", "b", GitHubService)
RepoC == Repo("C", "c", GitHubService)
\* A repository of another code host whose ID the GitHub list may also hold.
RepoX == Repo("X", "x", OtherService)

AllRepos == {RepoA, RepoB, RepoC, RepoX}

\* The candidate sets RepoPerms is called with.
CandidateSets == {{}, {RepoA, RepoX}, {RepoB}, {RepoA, RepoB, RepoC}}

AccountIDs == {"u1", "u2"}

\* The access token the remote host knows an account by.
TokenOf(accountID) == "tok-" \o accountID

\* ExternalAccountData holding the OAuth token t.
AuthData(t) == [json |-> "object", AccessToken |-> t]

\* ExternalAccountData holding no token at all.
NoAuthData == [json |-> "object"]

\* ExternalAccountData that does not decode.
BadAuthData == [json |-> "malformed"]

\* extsvc.ExternalAccount: the account ID and the account data.
Accounts ==
    {[AccountID |-> "u1", AccountData |-> AuthData(TokenOf("u1"))],
     [AccountID |-> "u1", AccountData |-> AuthData("")],
     [AccountID |-> "u1", AccountData |-> NoAuthData],
     [AccountID |-> "u1", AccountData |-> BadAuthData],
     [AccountID |-> "u2", AccountData |-> AuthData(TokenOf("u2"))]}

Procs == {"p1", "p2"}

(* ------------------------- pure functions ------------------------------ *)

\* ExplicitKey without the account: one key for all accounts.
ExplicitKeyShared(accountID) == "u:"

\* fmt.Sprintf("u:%s", userAccount.AccountID)
ExplicitKey(accountID) == "u:" \o accountID

\* fmt.Sprintf("r:%s", k) of setCachedPublicRepos, k a repository ID.
PublicSetKey(id) == "r:" \o id

\* fmt's %s of an authz.Repo value: the struct's fields in braces.
FormatRepo(r) ==
    "{" \o r.RepoName \o " {" \o r.ExternalRepoSpec.ID \o " "
        \o r.ExternalRepoSpec.ServiceType \o " "
        \o r.ExternalRepoSpec.ServiceID \o "}}"

\* fmt.Sprintf("r:%s", r) of getCachedPublicRepos, r the authz.Repo itself.
PublicGetKey(r) == "r:" \o FormatRepo(r)

\* json.Marshal(cacheVal{ProjIDs, TTL})
MarshalCacheVal(ids, ttl) == [json |-> "object", ProjIDs |-> ids, TTL |-> ttl]

\* json.Marshal(publicRepoCacheVal{Public, TTL})
MarshalPublicRepoCacheVal(public, ttl) ==
    [json |-> "object", Public |-> public, TTL |-> ttl]

\* Bytes that json.Unmarshal rejects.
Malformed == [json |-> "malformed"]

\* The nil slice the cache gives for a key the store does not hold.
NilBytes == [json |-> "nil"]

\* json.Unmarshal(b, &c) for a cacheVal: an error, or the fields the object
\* holds (a field the object lacks keeps its zero value).
UnmarshalCacheVal(b) ==
    IF b.json # "object"
    THEN [err |-> "json", ProjIDs |-> {}, TTL |-> 0]
    ELSE [err |-> "",
          ProjIDs |-> IF "ProjIDs" \in DOMAIN b THEN b.ProjIDs ELSE {},
          TTL |-> IF "TTL" \in DOMAIN b THEN b.TTL ELSE 0]

\* json.Unmarshal(v, &val) for a publicRepoCacheVal.
UnmarshalPublicRepoCacheVal(b) ==
    IF b.json # "object"
    THEN [err |-> "json", Public |-> FALSE, TTL |-> 0]
    ELSE [err |-> "",
          Public |-> IF "Public" \in DOMAIN b THEN b.Public ELSE FALSE,
          TTL |-> IF "TTL" \in DOMAIN b THEN b.TTL ELSE 0]

\* github.GetExternalAccountData: the token of the account data (tokNil when
\* the data holds none), or the error of decoding it.
GetExternalAccountData(data) ==
    IF data.json # "object"
    THEN [err |-> "json", tokNil |-> TRUE, AccessToken |-> ""]
    ELSE [err |-> "", tokNil |-> "AccessToken" \notin DOMAIN data,
          AccessToken |-> IF "AccessToken" \in DOMAIN data THEN data.AccessToken ELSE ""]

\* githubRepoIDs keeping the ID of the first repository only.
githubRepoIDsFirst(repos) == IF repos = <<>> THEN {} ELSE {repos[1].ID}

\* githubRepoIDs: the set of IDs of a list of repositories.
githubRepoIDs(repos) == {repos[i].ID : i \in DOMAIN repos}

\* authz.GetCodeHostRepos: the candidates of the provider's code host.
GetCodeHostRepos(codeHost, repos) ==
    {r \in repos : /\ r.ExternalRepoSpec.ServiceType = codeHost.ServiceType
                   /\ r.ExternalRepoSpec.ServiceID = codeHost.ServiceID}

\* Repos taking every candidate for one of this provider's.
ReposAll(repos) == repos

\* Provider.Repos: mine, the candidates this provider is responsible for.
Repos(repos) == GetCodeHostRepos(GitHubService, repos)

\* map[authz.Perm]bool{authz.Read: true}
ReadPerm == [Read |-> TRUE]

\* The empty Go map.
EmptyMap == [x \in {} |-> TRUE]

\* m with m[k] = v set for every k of ks.
MapSet(m, ks, v) == [k \in DOMAIN m \cup ks |-> IF k \in ks THEN v ELSE m[k]]

\* MapMerge that keeps b alone: the entries of a are lost.
MapMergeFetchedOnly(a, b) == b

\* a overwritten by b (for k, v := range b { a[k] = v }).
MapMerge(a, b) ==
    [k \in DOMAIN a \cup DOMAIN b |-> IF k \in DOMAIN b THEN b[k] ELSE a[k]]

\* All orders in which a Go map range may visit the set s.
Orders(s) ==
    {o \in [1..Cardinality(s) -> s] : \A i, j \in DOMAIN o : i # j => o[i] # o[j]}

(* ---------------------------- remote host ------------------------------- *)

\* The repository IDs in the order the remote host lists them.
IDOrder == <<"a", "b", "c", "x">>

\* github.Repository values of the IDs of ids, in listing order.
RemoteList(ids, private) ==
    LET keep(id) == id \in ids
        listed == SelectSeq(IDOrder, keep)
    IN  [i \in DOMAIN listed |-> [ID |-> listed[i], IsPrivate |-> listed[i] \in private]]

\* The page, of n pages, on which the i-th of len listed repositories is
\* (the list fills the pages from the last one backwards).
PageOf(i, len, n) == IF n - (len - i) >= 1 THEN n - (len - i) ELSE 1

\* A repository list spread over n pages.
Paginate(list, n) ==
    [k \in 1..n |->
        LET idx == {i \in DOMAIN list : PageOf(i, Len(list), n) = k}
        IN  IF idx = {} THEN <<>>
            ELSE LET lo == CHOOSE i \in idx : \A j \in idx : i <= j
                     hi == CHOOSE i \in idx : \A j \in idx : j <= i
                 IN  SubSeq(list, lo, hi)]

(* ------------------------------- state --------------------------------- *)

VARIABLES
    cache,      \* Provider.cache: key -> stored bytes
    age,        \* cache store: key -> time since the entry was written
    ghPages,    \* remote host: access token -> the pages of the viewer's list
    ghPrivate,  \* remote host: the IDs of the private repositories
    call,       \* per caller: position in RepoPerms, its locals, what it did
    calls,      \* RepoPerms calls started
    faults      \* cache store misbehaviours so far

vars == <<cache, age, ghPages, ghPrivate, call, calls, faults>>

NoAccount == [AccountID |-> "", AccountData |-> NoAuthData]

\* What RepoPerms returned: (perms, err), perms nil when permsNil.
NoReturn == [permsNil |-> TRUE, perms |-> EmptyMap, err |-> ""]

\* The call is not a repetition of the call before it.  (Of a repetition:
\* what the call before returned, and whether the store behaved during it.)
NoPred == [valid |-> FALSE, ret |-> NoReturn, clean |-> FALSE]

\* A caller outside RepoPerms.
IdleCall ==
    [pc |-> "idle",
     \* arguments and locals of RepoPerms and the functions it calls
     userAccount |-> NoAccount, repos |-> {},
     explicitRepos |-> {}, tok |-> "", page |-> 0, ghRepos |-> <<>>,
     perms |-> EmptyMap, nonExplicitRepos |-> {},
     cachedIsPublic |-> EmptyMap, missing |-> {}, missingIsPublic |-> EmptyMap,
     ret |-> NoReturn,
     \* what the call did so far
     cacheGets |-> <<>>,        \* keys of its cache.Get calls
     cacheSets |-> <<>>,        \* keys of its cache.Set calls
     nGetMulti |-> 0,           \* its cache.GetMulti calls
     getMultiKeys |-> {},       \* the keys they read
     getMultiFor |-> {},        \* the candidates they were built from
     nSetMulti |-> 0,           \* its cache.SetMulti calls
     setMultiKeys |-> {},       \* the keys they wrote
     listCalls |-> <<>>,        \* pages of its ListViewerRepositories calls
     nGetRepo |-> 0,            \* its GetRepositoryByNodeID calls
     getRepoIDs |-> {},         \* the IDs they asked for
     uEntry |-> NilBytes,       \* what cache.Get gave for u:<AccountID>
     uAge |-> 0,                \* the age of that entry at the Get
     explicitFrom |-> "",       \* "cache" or "remote"
     visibilityFor |-> {},      \* the candidates publicRepos was called with
     publicRepos |-> EmptyMap,  \* what publicRepos returned
     storedAtRead |-> {},       \* IDs with a stored r:<ID> entry at GetMulti
     hitsAtRead |-> {},         \* IDs GetMulti gave an entry for
     malformedAtRead |-> {},    \* IDs with undecodable r:<ID> bytes at GetMulti
     failedAt |-> "",           \* the step that failed
     clean |-> TRUE,            \* the store has behaved since it began
     overlapped |-> FALSE,      \* another call was under way during it
     pred |-> NoPred]           \* the call it repeats

\* What the remote host may list for the first account: no repository or
\* one repository on one page, or two repositories on any number of pages.
ViewerLists ==
    {[ids |-> {}, pages |-> 1], [ids |-> {"a"}, pages |-> 1]}
        \cup {[ids |-> {"a", "x"}, pages |-> n] : n \in 1..MaxPages}

Init ==
    /\ cache = [k \in {} |-> Malformed]
    /\ age = [k \in {} |-> 0]
    /\ ghPrivate = {"a", "c", "x"}
    /\ \E l \in ViewerLists :
          ghPages = [t \in {TokenOf(a) : a \in AccountIDs} |->
                        IF t = TokenOf("u1")
                        THEN Paginate(RemoteList(l.ids, ghPrivate), l.pages)
                        ELSE Paginate(RemoteList({"b", "c", "x"}, ghPrivate), 1)]
    /\ call = [p \in Procs |-> IdleCall]
    /\ calls = 0
    /\ faults = 0

(* ------------------------- RepoPerms, step by step ---------------------- *)

\* return nil, err
Fail(c, msg) ==
    [c EXCEPT !.pc = "done",
              !.ret = [permsNil |-> TRUE, perms |-> EmptyMap, err |-> msg]]

\* return perms, nil
Succeed(c, perms) ==
    [c EXCEPT !.pc = "done", !.perms = perms,
              !.ret = [permsNil |-> FALSE, perms |-> perms, err |-> ""]]

\* ExplicitPerms looking the repository name up in explicitRepos, not its ID.
ExplicitPermsByName(providerRepos, explicitRepos) ==
    LET granted == {r \in providerRepos : r.RepoName \in explicitRepos}
    IN  [n \in {r.RepoName : r \in granted} |-> ReadPerm]

\* ExplicitPerms ranging over explicitRepos instead of the candidates: Read
\* for every known repository the account has explicit access to.
ExplicitPermsOfAccount(providerRepos, explicitRepos) ==
    LET granted == {r \in AllRepos : r.ExternalRepoSpec.ID \in explicitRepos}
    IN  [n \in {r.RepoName : r \in granted} |-> ReadPerm]

\* The first loop of RepoPerms: Read for every candidate of this provider
\* whose ID is in explicitRepos.
ExplicitPerms(providerRepos, explicitRepos) ==
    LET granted == {r \in providerRepos : r.ExternalRepoSpec.ID \in explicitRepos}
    IN  [n \in {r.RepoName : r \in granted} |-> ReadPerm]

\* NonExplicitRepos without the test: every candidate of this provider.
NonExplicitAll(providerRepos, explicitRepos) == providerRepos

\* The first loop of RepoPerms: the candidates of this provider whose ID is
\* not in explicitRepos.
NonExplicitRepos(providerRepos, explicitRepos) ==
    {r \in providerRepos : r.ExternalRepoSpec.ID \notin explicitRepos}

\* publicRepos[id] of a Go map[string]bool: false for a key it lacks.
Lookup(publicRepos, id) == id \in DOMAIN publicRepos /\ publicRepos[id]

\* PublicPerms testing that publicRepos has the ID, not what it maps it to.
PublicPermsIfPresent(perms, nonExplicitRepos, publicRepos) ==
    LET granted == {r \in nonExplicitRepos : r.ExternalRepoSpec.ID \in DOMAIN publicRepos}
    IN  MapSet(perms, {r.RepoName : r \in granted}, ReadPerm)

\* PublicPerms storing the looked-up value: {Read: false} for a private one.
PublicPermsStoreValue(perms, nonExplicitRepos, publicRepos) ==
    [n \in DOMAIN perms \cup {r.RepoName : r \in nonExplicitRepos} |->
        IF n \in DOMAIN perms THEN perms[n]
        ELSE [Read |-> \E r \in nonExplicitRepos :
                          /\ r.RepoName = n
                          /\ Lookup(publicRepos, r.ExternalRepoSpec.ID)]]

\* The second loop of RepoPerms: Read for every non-explicit candidate that
\* publicRepos maps to true.
PublicPerms(perms, nonExplicitRepos, publicRepos) ==
    LET granted == {r \in nonExplicitRepos : Lookup(publicRepos, r.ExternalRepoSpec.ID)}
    IN  MapSet(perms, {r.RepoName : r \in granted}, ReadPerm)

\* if len(nonExplicitRepos) > 0
NeedPublicRepos(nonExplicitRepos) == Cardinality(nonExplicitRepos) > 0

\* RepoPerms from the point explicitRepos is known up to the call of
\* publicRepos (or the return, when no candidate is left to look up).
AfterExplicit(c, explicitRepos) ==
    LET providerRepos == Repos(c.repos)
        perms == ExplicitPerms(providerRepos, explicitRepos)
        nonExplicitRepos == NonExplicitRepos(providerRepos, explicitRepos)
        d == [c EXCEPT !.explicitRepos = explicitRepos, !.perms = perms,
                       !.nonExplicitRepos = nonExplicitRepos]
    IN  IF NeedPublicRepos(nonExplicitRepos)
        THEN [d EXCEPT !.pc = "getCachedPublicRepos",
                       !.visibilityFor = nonExplicitRepos]
        ELSE Succeed(d, perms)

\* RepoPerms from the return of publicRepos to its own return.
AfterPublic(c, publicRepos) ==
    Succeed([c EXCEPT !.publicRepos = publicRepos],
            PublicPerms(c.perms, c.nonExplicitRepos, publicRepos))

\* NoToken without the test for the empty token.
NoTokenNilOnly(got) == got.tokNil

\* tok == nil || tok.AccessToken == ""
NoToken(got) == got.tokNil \/ got.AccessToken = ""

\* fetchUserExplicitRepos up to its first page: the account data must
\* decode and hold a token.
BeginFetch(c) ==
    LET got == GetExternalAccountData(c.userAccount.AccountData)
    IN  IF got.err # ""
        THEN Fail([c EXCEPT !.failedAt = "credential"], got.err)
        ELSE IF NoToken(got)
        THEN Fail([c EXCEPT !.failedAt = "credential"],
                  "no access token found for user")
        ELSE [c EXCEPT !.pc = "ListViewerRepositories", !.tok = got.AccessToken,
                       !.page = 1, !.explicitFrom = "remote"]

\* The call of q is under way: entered and not yet returned.
UnderWay(q) == call[q].pc \notin {"idle", "done"}

\* The calls, with the call of p replaced by the call c that begins, and
\* the calls under way marked as overlapping another call.
Begin(p, c) ==
    [q \in Procs |->
        IF q = p
        THEN [c EXCEPT !.overlapped = \E o \in Procs \ {p} : UnderWay(o)]
        ELSE IF UnderWay(q) THEN [call[q] EXCEPT !.overlapped = TRUE]
        ELSE call[q]]

\* A caller enters RepoPerms(ctx, userAccount, repos).
RepoPerms(p, userAccount, repos) ==
    /\ call[p].pc = "idle"
    /\ calls < MaxCalls
    /\ calls' = calls + 1
    /\ call' = Begin(p, [IdleCall EXCEPT
                            !.pc = "getCachedExplicitRepos",
                            !.userAccount = userAccount,
                            !.repos = repos])
    /\ UNCHANGED <<cache, age, ghPages, ghPrivate, faults>>

\* ExplicitHit taking every entry for stale: the set is fetched again.
ExplicitHitRefetch(c, v) == BeginFetch(c)

\* ExplicitHit asking for the access token first: without one the call
\* fails although the set is cached.
ExplicitHitNeedsToken(c, v) ==
    IF NoToken(GetExternalAccountData(c.userAccount.AccountData))
    THEN Fail(c, "no access token found for user")
    ELSE AfterExplicit([c EXCEPT !.explicitFrom = "cache"], v.ProjIDs)

\* return c.ProjIDs, true of getCachedExplicitRepos, and RepoPerms going on
\* with the cached set (the TTL of the entry is not looked at).
ExplicitHit(c, v) == AfterExplicit([c EXCEPT !.explicitFrom = "cache"], v.ProjIDs)

\* getCachedExplicitRepos: cache.Get of the account's key.  A hit gives
\* explicitRepos; a miss leads into fetchUserExplicitRepos.
getCachedExplicitRepos(p) ==
    LET c == call[p]
        key == ExplicitKey(c.userAccount.AccountID)
        exists == key \in DOMAIN cache
        read == [c EXCEPT !.cacheGets = Append(@, key),
                          !.uEntry = IF exists THEN cache[key] ELSE NilBytes,
                          !.uAge = IF exists THEN age[key] ELSE 0]
    IN  /\ c.pc = "getCachedExplicitRepos"
        /\ call' = [call EXCEPT ![p] =
             IF ~exists
             THEN BeginFetch(read)
             ELSE LET v == UnmarshalCacheVal(cache[key])
                  IN  IF v.err # ""
                      THEN Fail([read EXCEPT !.failedAt = "unmarshal cacheVal"], v.err)
                      ELSE ExplicitHit(read, v)]
        /\ UNCHANGED <<cache, age, ghPages, ghPrivate, calls, faults>>

\* AfterPage leaving the loop after the first page, whatever hasNextPage is.
AfterPageBreak(c, r, hasNextPage) ==
    [c EXCEPT !.ghRepos = @ \o r, !.pc = "setCachedExplicitRepos"]

\* AfterPage going on to the candidates with the repositories of the pages
\* so far while further pages are left (and storing nothing).
AfterPageEarly(c, r, hasNextPage) ==
    LET d == [c EXCEPT !.ghRepos = @ \o r]
    IN  IF ~hasNextPage
        THEN [d EXCEPT !.pc = "setCachedExplicitRepos"]
        ELSE AfterExplicit(d, githubRepoIDs(d.ghRepos))

\* AfterPage beginning the walk anew after the page that has no next page.
AfterPageRestart(c, r, hasNextPage) ==
    IF ~hasNextPage
    THEN [c EXCEPT !.ghRepos = <<>>, !.page = 1, !.listCalls = <<>>]
    ELSE [c EXCEPT !.ghRepos = @ \o r, !.page = @ + 1]

\* The body of the page loop of fetchUserExplicitRepos after a page that
\* came back without error.
AfterPage(c, r, hasNextPage) ==
    LET d == [c EXCEPT !.ghRepos = @ \o r]
    IN  IF ~hasNextPage
        THEN [d EXCEPT !.pc = "setCachedExplicitRepos"]
        ELSE [d EXCEPT !.page = @ + 1]

\* PageFailed keeping what the earlier pages gave: the walk ends there and
\* the repositories so far are stored.
PageFailedKeep(c) == [c EXCEPT !.pc = "setCachedExplicitRepos"]

\* return nil, err of fetchUserExplicitRepos after a page that failed,
\* passed on by RepoPerms.
PageFailed(c) == Fail(c, "transport")

\* The answers the remote host may give to a page request under the token
\* tok: it fails, or (for a token it knows) it answers.
Answers(tok) == IF tok \in DOMAIN ghPages THEN BOOLEAN ELSE {FALSE}

\* One client.ListViewerRepositories(ctx, tok.AccessToken, page) call of
\* fetchUserExplicitRepos; the remote host answers or fails.
ListViewerRepositories(p) ==
    LET c == call[p]
        pages == ghPages[c.tok]
    IN  /\ c.pc = "ListViewerRepositories"
        /\ \E ok \in Answers(c.tok) :
             LET asked == [c EXCEPT
                             !.failedAt = IF ok THEN @ ELSE "ListViewerRepositories",
                             !.listCalls = Append(@, c.page)]
             IN  call' = [call EXCEPT ![p] =
                            IF ~ok THEN PageFailed(asked)
                            ELSE AfterPage(asked, pages[c.page], c.page < Len(pages))]
        /\ UNCHANGED <<cache, age, ghPages, ghPrivate, calls, faults>>

\* setCachedExplicitRepos, with the lines of RepoPerms around it: the IDs of
\* the fetched repositories are stored under the account's key and become
\* explicitRepos.
setCachedExplicitRepos(p) ==
    LET c == call[p]
        ghRepoIDs == githubRepoIDs(c.ghRepos)
        key == ExplicitKey(c.userAccount.AccountID)
        reposB == MarshalCacheVal(ghRepoIDs, cacheTTL)
    IN  /\ c.pc = "setCachedExplicitRepos"
        /\ cache' = [k \in DOMAIN cache \cup {key} |->
                        IF k = key THEN reposB ELSE cache[k]]
        /\ age' = [k \in DOMAIN cache \cup {key} |-> IF k = key THEN 0 ELSE age[k]]
        /\ call' = [call EXCEPT ![p] =
                      AfterExplicit([c EXCEPT !.cacheSets = Append(@, key)], ghRepoIDs)]
        /\ UNCHANGED <<ghPages, ghPrivate, calls, faults>>

\* pcache.GetMulti(keys...) of a store that answers as it should: one slot
\* per key, in the order of the keys.
GetMulti(store, keys) ==
    [i \in DOMAIN keys |-> IF keys[i] \in DOMAIN store THEN store[keys[i]] ELSE NilBytes]

\* CardinalityOK without the comparison.
CardinalityUnchecked(vals, repos) == TRUE

\* if len(vals) != len(repos) { return nil, error }
CardinalityOK(vals, repos) == Len(vals) = Cardinality(repos)

\* The loop of getCachedPublicRepos over vals: the decoded entries, keyed by
\* the ID at the same position of repoList, or the first decoding error.
DecodeVals(vals, repoList) ==
    LET present == {i \in DOMAIN vals : vals[i] # NilBytes}
        bad == {i \in present : UnmarshalPublicRepoCacheVal(vals[i]).err # ""}
        at(id) == CHOOSE i \in present : repoList[i] = id
    IN  IF bad # {}
        THEN [err |-> "json", isPublic |-> EmptyMap]
        ELSE [err |-> "",
              isPublic |-> [id \in {repoList[i] : i \in present} |->
                               UnmarshalPublicRepoCacheVal(vals[at(id)]).Public]]

\* publicRepos: the IDs of repos that cachedIsPublic has no entry for.
Missing(repos, cachedIsPublic) ==
    {r.ExternalRepoSpec.ID : r \in {q \in repos :
        q.ExternalRepoSpec.ID \notin DOMAIN cachedIsPublic}}

\* if len(cachedIsPublic) >= len(repos) { return cachedIsPublic, nil }
AllCached(cachedIsPublic, repos) ==
    Cardinality(DOMAIN cachedIsPublic) >= Cardinality(repos)

\* publicRepos from the return of getCachedPublicRepos to the first
\* GetRepositoryByNodeID call (or to its return, when all were cached).
AfterCached(c, cachedIsPublic) ==
    LET d == [c EXCEPT !.cachedIsPublic = cachedIsPublic,
                       !.hitsAtRead = DOMAIN cachedIsPublic]
        missing == Missing(c.nonExplicitRepos, cachedIsPublic)
    IN  IF AllCached(cachedIsPublic, c.nonExplicitRepos)
        THEN AfterPublic(d, cachedIsPublic)
        ELSE [d EXCEPT !.missing = missing,
                       !.pc = IF missing = {} THEN "setCachedPublicRepos"
                              ELSE "fetchPublicRepos"]

\* The IDs whose r:<ID> key holds an entry that decodes.
Stored(store, ids) ==
    {id \in ids : /\ PublicSetKey(id) \in DOMAIN store
                  /\ UnmarshalPublicRepoCacheVal(store[PublicSetKey(id)]).err = ""}

\* The IDs whose r:<ID> key holds bytes that do not decode.
Undecodable(store, ids) ==
    {id \in ids : /\ PublicSetKey(id) \in DOMAIN store
                  /\ UnmarshalPublicRepoCacheVal(store[PublicSetKey(id)]).err # ""}

\* getCachedPublicRepos, called by publicRepos with the non-explicit
\* candidates: nothing to do for no candidates, else one cache.GetMulti over
\* a key per candidate, built in the order the map range visits them.
\* short: the store gives one slot less than it was asked for.
getCachedPublicRepos(p) ==
    LET c == call[p]
        repos == c.nonExplicitRepos
    IN  /\ c.pc = "getCachedPublicRepos"
        /\ \E order \in Orders(repos), short \in BOOLEAN :
             LET getArgs == [i \in DOMAIN order |-> PublicGetKey(order[i])]
                 repoList == [i \in DOMAIN order |-> order[i].ExternalRepoSpec.ID]
                 full == GetMulti(cache, getArgs)
                 vals == IF short THEN SubSeq(full, 1, Len(full) - 1) ELSE full
                 read == [c EXCEPT
                            !.failedAt = IF short THEN "GetMulti" ELSE @,
                            !.clean = IF short THEN FALSE ELSE @,
                            !.nGetMulti = @ + 1,
                            !.getMultiKeys = @ \cup {getArgs[i] : i \in DOMAIN getArgs},
                            !.getMultiFor = @ \cup repos,
                            !.storedAtRead = Stored(cache, {repoList[i] : i \in DOMAIN repoList}),
                            !.malformedAtRead =
                                Undecodable(cache, {repoList[i] : i \in DOMAIN repoList})]
                 dec == DecodeVals(vals, repoList)
             IN  /\ short => faults < MaxFaults
                 /\ faults' = IF short THEN faults + 1 ELSE faults
                 /\ call' = [call EXCEPT ![p] =
                      IF Cardinality(repos) = 0
                      THEN AfterCached(c, EmptyMap)
                      ELSE IF ~CardinalityOK(vals, repos)
                      THEN Fail(read, "number of cache items did not match number of keys")
                      ELSE IF dec.err # ""
                      THEN Fail([read EXCEPT !.failedAt = "unmarshal publicRepoCacheVal"],
                                dec.err)
                      ELSE AfterCached(read, dec.isPublic)]
        /\ UNCHANGED <<cache, age, ghPages, ghPrivate, calls>>

\* The body of the loop of fetchPublicRepos after a GetRepositoryByNodeID
\* call that came back without error.
AfterRepo(c, ghRepoID, ghRepo) ==
    LET isPublic == MapSet(c.missingIsPublic, {ghRepoID}, ~ghRepo.IsPrivate)
        d == [c EXCEPT !.missingIsPublic = isPublic]
    IN  IF c.missing \subseteq DOMAIN isPublic
        THEN [d EXCEPT !.pc = "setCachedPublicRepos"]
        ELSE d

\* FetchFailed swallowing the error: the repository counts as private and
\* the loop goes on.
FetchFailedSkip(c, ghRepoID) ==
    AfterRepo(c, ghRepoID, [ID |-> ghRepoID, IsPrivate |-> TRUE])

\* FetchFailed ending the loop without the error: what was fetched before
\* the failure is stored and used.
FetchFailedStore(c, ghRepoID) == [c EXCEPT !.pc = "setCachedPublicRepos"]

\* return nil, err of fetchPublicRepos, passed on by publicRepos and RepoPerms.
FetchFailed(c, ghRepoID) == Fail(c, "transport")

\* One client.GetRepositoryByNodeID(ctx, ghRepoID) call of fetchPublicRepos,
\* for an ID of missing the loop has not visited; the remote host answers
\* or fails.
GetRepositoryByNodeID(p) ==
    LET c == call[p]
    IN  /\ c.pc = "fetchPublicRepos"
        /\ \E ghRepoID \in c.missing \ DOMAIN c.missingIsPublic, ok \in BOOLEAN :
             LET asked == [c EXCEPT
                             !.failedAt = IF ok THEN @ ELSE "GetRepositoryByNodeID",
                             !.nGetRepo = @ + 1,
                             !.getRepoIDs = @ \cup {ghRepoID}]
                 ghRepo == [ID |-> ghRepoID, IsPrivate |-> ghRepoID \in ghPrivate]
             IN  call' = [call EXCEPT ![p] =
                            IF ~ok THEN FetchFailed(asked, ghRepoID)
                            ELSE AfterRepo(asked, ghRepoID, ghRepo)]
        /\ UNCHANGED <<cache, age, ghPages, ghPrivate, calls, faults>>

\* SetArgs with a pair for every repository ID the host lists, private
\* where the call has not fetched it.
SetArgsAll(isPublic) ==
    {<<PublicSetKey(IDOrder[i]),
       MarshalPublicRepoCacheVal(Lookup(isPublic, IDOrder[i]), cacheTTL)>> :
        i \in DOMAIN IDOrder}

\* setCachedPublicRepos: the key/value pairs of one cache.SetMulti.
SetArgs(isPublic) ==
    {<<PublicSetKey(k), MarshalPublicRepoCacheVal(isPublic[k], cacheTTL)>> :
        k \in DOMAIN isPublic}

\* setCachedPublicRepos, with the rest of publicRepos and of RepoPerms: the
\* fetched entries are stored, merged into the cached ones and turned into
\* permissions.
setCachedPublicRepos(p) ==
    LET c == call[p]
        setArgs == SetArgs(c.missingIsPublic)
        keys == {kv[1] : kv \in setArgs}
        valOf(k) == (CHOOSE kv \in setArgs : kv[1] = k)[2]
        wrote == [c EXCEPT !.nSetMulti = @ + 1, !.setMultiKeys = @ \cup keys]
    IN  /\ c.pc = "setCachedPublicRepos"
        /\ cache' = [k \in DOMAIN cache \cup keys |->
                        IF k \in keys THEN valOf(k) ELSE cache[k]]
        /\ age' = [k \in DOMAIN cache \cup keys |-> IF k \in keys THEN 0 ELSE age[k]]
        /\ call' = [call EXCEPT ![p] =
                      AfterPublic(wrote, MapMerge(c.cachedIsPublic, c.missingIsPublic))]
        /\ UNCHANGED <<ghPages, ghPrivate, calls, faults>>

\* RepoPerms has returned and its caller goes on.
Return(p) ==
    /\ call[p].pc = "done"
    /\ call' = [call EXCEPT ![p] = IdleCall]
    /\ UNCHANGED <<cache, age, ghPages, ghPrivate, calls, faults>>

\* RepoPerms has returned and its caller calls it again at once, with the
\* same account and the same candidates.
RepoPermsAgain(p) ==
    /\ call[p].pc = "done"
    /\ calls < MaxCalls
    /\ calls' = calls + 1
    /\ call' = Begin(p, [IdleCall EXCEPT
                            !.pc = "getCachedExplicitRepos",
                            !.userAccount = call[p].userAccount,
                            !.repos = call[p].repos,
                            !.pred = [valid |-> TRUE, ret |-> call[p].ret,
                                      clean |-> call[p].clean]])
    /\ UNCHANGED <<cache, age, ghPages, ghPrivate, faults>>

(* ----------------------------- cache store ----------------------------- *)

\* Keys RepoPerms reads whose bytes a foreign writer may have stored.
ForeignKeys == {ExplicitKey("u1"), PublicGetKey(RepoB), PublicSetKey("b")}

\* The calls under way, marked as having seen the store misbehave.
Disturbed ==
    [p \in Procs |-> IF call[p].pc = "idle" THEN call[p]
                     ELSE [call[p] EXCEPT !.clean = FALSE]]

\* The store drops an entry: its TTL ran out, or the outer store deleted it.
Evict(k) ==
    /\ faults < MaxFaults
    /\ k \in DOMAIN cache
    /\ cache' = [j \in DOMAIN cache \ {k} |-> cache[j]]
    /\ age' = [j \in DOMAIN cache \ {k} |-> age[j]]
    /\ faults' = faults + 1
    /\ call' = Disturbed
    /\ UNCHANGED <<ghPages, ghPrivate, calls>>

\* What a foreign writer may have stored under the key k: bytes that are no
\* JSON, or an entry of the right shape that the provider did not compute.
ForeignBytes(k) ==
    IF k = ExplicitKey("u1")
    THEN {Malformed, MarshalCacheVal({"b"}, cacheTTL)}
    ELSE IF k = PublicSetKey("b")
    THEN {Malformed}
    ELSE {Malformed, MarshalPublicRepoCacheVal(TRUE, cacheTTL),
          MarshalPublicRepoCacheVal(FALSE, cacheTTL)}

\* The store holds, under a key the provider reads, bytes the provider did
\* not write.
ForeignWrite(k, b) ==
    /\ faults < MaxFaults
    /\ cache' = [j \in DOMAIN cache \cup {k} |-> IF j = k THEN b ELSE cache[j]]
    /\ age' = [j \in DOMAIN cache \cup {k} |-> IF j = k THEN 0 ELSE age[j]]
    /\ faults' = faults + 1
    /\ call' = Disturbed
    /\ UNCHANGED <<ghPages, ghPrivate, calls>>

\* Time passes between two calls: every entry of the store grows older.
Tick ==
    /\ \A p \in Procs : call[p].pc \in {"idle", "done"}
    /\ \E k \in DOMAIN age : age[k] < MaxAge
    /\ age' = [k \in DOMAIN age |-> IF age[k] < MaxAge THEN age[k] + 1 ELSE age[k]]
    /\ UNCHANGED <<cache, ghPages, ghPrivate, call, calls, faults>>

(* --------------------------- specifications ---------------------------- *)

\* A step of a RepoPerms call under way.
Step(p) ==
    \/ getCachedExplicitRepos(p)
    \/ ListViewerRepositories(p)
    \/ setCachedExplicitRepos(p)
    \/ getCachedPublicRepos(p)
    \/ GetRepositoryByNodeID(p)
    \/ setCachedPublicRepos(p)
    \/ Return(p)
    \/ RepoPermsAgain(p)

\* One caller: a call starts when the one before has returned.
Next ==
    \/ \E userAccount \in Accounts, repos \in CandidateSets :
          RepoPerms("p1", userAccount, repos)
    \/ \E p \in Procs : Step(p)
    \/ \E k \in DOMAIN cache : Evict(k)
    \/ \E k \in ForeignKeys : \E b \in ForeignBytes(k) : ForeignWrite(k, b)

Spec == Init /\ [][Next]_vars

\* One caller and a store that keeps its entries (a mockCache, which has no
\* expiry of its own), watched while time passes.
NextTTL ==
    \/ \E userAccount \in Accounts, repos \in CandidateSets :
          RepoPerms("p1", userAccount, repos)
    \/ \E p \in Procs : Step(p)
    \/ Tick

SpecTTL == Init /\ [][NextTTL]_vars

\* A step of the code of RepoPerms itself: a cache operation or a remote
\* request of the call of p and the code up to the next one.
Run(p) ==
    \/ getCachedExplicitRepos(p)
    \/ ListViewerRepositories(p)
    \/ setCachedExplicitRepos(p)
    \/ getCachedPublicRepos(p)
    \/ GetRepositoryByNodeID(p)
    \/ setCachedPublicRepos(p)

\* One caller on a store that keeps its entries; every cache operation
\* and every remote request of a call under way comes back, so the call
\* takes its next step.
NextLive ==
    \/ \E userAccount \in Accounts, repos \in CandidateSets :
          RepoPerms("p1", userAccount, repos)
    \/ \E p \in Procs : Step(p)

SpecLive == Init /\ [][NextLive]_vars /\ \A p \in Procs : WF_vars(Run(p))

\* The accounts of the concurrent callers: each holds its token.
ConcAccounts ==
    {a \in Accounts : a.AccountData = AuthData(TokenOf(a.AccountID))}

\* The candidate sets of the concurrent callers: candidates of both code
\* hosts, and candidates the two accounts have different access to.
ConcCandidateSets == {{RepoA, RepoX}, {RepoA, RepoB, RepoC}}

\* Two callers on one shared store that behaves (but for a short batch
\* read): "p1" enters RepoPerms at any time, "p2" while the call of "p1" is
\* under way.
NextConc ==
    \/ \E userAccount \in ConcAccounts, repos \in ConcCandidateSets :
          \/ RepoPerms("p1", userAccount, repos)
          \/ UnderWay("p1") /\ RepoPerms("p2", userAccount, repos)
    \/ \E p \in Procs : Step(p)

SpecConc == Init /\ [][NextConc]_vars

(* ------------------------------- claims -------------------------------- *)

Done(p) == call[p].pc = "done"

\* The call of p has returned a permission map and no error.
Returned(p) == Done(p) /\ call[p].ret.err = "" /\ ~call[p].ret.permsNil

\* The returned map grants Read on the name of r.
Granted(p, r) ==
    /\ r.RepoName \in DOMAIN call[p].ret.perms
    /\ "Read" \in DOMAIN call[p].ret.perms[r.RepoName]
    /\ call[p].ret.perms[r.RepoName].Read

Explicit(p, r) == r.ExternalRepoSpec.ID \in call[p].explicitRepos

\* publicRepos was asked about r and reported it public.
ReportedPublic(p, r) ==
    /\ r \in call[p].visibilityFor
    /\ Lookup(call[p].publicRepos, r.ExternalRepoSpec.ID)

\* C1 as stated: a returned map grants Read on every candidate whose ID is
\* in the explicit-access set.  A candidate of another code host whose ID is
\* in the set is not granted.
C1_AllCandidates ==
    \A p \in Procs : Returned(p) =>
        \A r \in call[p].repos : Explicit(p, r) => Granted(p, r)

\* C1 (amended): a returned map grants Read on every candidate of this
\* provider's code host whose ID is in the account's explicit-access set,
\* whether the repository is public or private.
C1_ExplicitGranted ==
    \A p \in Procs : Returned(p) =>
        \A r \in Repos(call[p].repos) : Explicit(p, r) => Granted(p, r)

\* A returned map grants an explicit public and an explicit private candidate.
C1_Witness ==
    \E p \in Procs : Returned(p) /\
        \E r, q \in Repos(call[p].repos) :
            /\ Explicit(p, r) /\ Granted(p, r) /\ r.ExternalRepoSpec.ID \in ghPrivate
            /\ Explicit(p, q) /\ Granted(p, q) /\ q.ExternalRepoSpec.ID \notin ghPrivate

\* C2: a returned map grants Read on a candidate whose ID is not in the
\* explicit-access set exactly when publicRepos reported it public.
C2_NonExplicitIffPublic ==
    \A p \in Procs : Returned(p) =>
        \A r \in call[p].repos :
            ~Explicit(p, r) => (Granted(p, r) <=> ReportedPublic(p, r))

\* A returned map grants one non-explicit candidate and not another.
C2_Witness ==
    \E p \in Procs : Returned(p) /\
        \E r, q \in call[p].visibilityFor :
            /\ ~Explicit(p, r) /\ Granted(p, r)
            /\ ~Explicit(p, q) /\ ~Granted(p, q)

\* C3: every entry of a returned map is exactly {Read: true}; a candidate
\* neither explicit nor reported public has no entry; explicit {a},
\* candidates {A, B, C}, B public and C private give exactly {A, B}.
C3_OnlyReadEntries ==
    \A p \in Procs : Returned(p) =>
        /\ \A n \in DOMAIN call[p].ret.perms : call[p].ret.perms[n] = ReadPerm
        /\ \A r \in call[p].repos :
              (~Explicit(p, r) /\ ~ReportedPublic(p, r))
                  => r.RepoName \notin DOMAIN call[p].ret.perms
        /\ (/\ call[p].explicitRepos = {"a"}
            /\ call[p].repos = {RepoA, RepoB, RepoC}
            /\ Lookup(call[p].publicRepos, "b")
            /\ ~Lookup(call[p].publicRepos, "c"))
              => call[p].ret.perms = [n \in {"A", "B"} |-> ReadPerm]

\* The scenario of C3 has returned.
C3_Witness ==
    \E p \in Procs :
        /\ Returned(p)
        /\ call[p].explicitRepos = {"a"}
        /\ call[p].repos = {RepoA, RepoB, RepoC}
        /\ "b" \notin ghPrivate /\ "c" \in ghPrivate
        /\ DOMAIN call[p].ret.perms = {"A", "B"}

\* The call of p repeats, with the same account and the same candidates, a
\* call that returned a map, and the cache store has not misbehaved (no
\* eviction, no foreign bytes, no short batch read) since that call began.
Repeated(p) ==
    /\ call[p].pred.valid
    /\ call[p].pred.ret.err = ""
    /\ call[p].pred.clean
    /\ call[p].clean

\* C4: the second of two successive calls for the same account and
\* candidates returns what the first returned and makes no remote call.
C4_SecondCallFromCache ==
    \A p \in Procs : (Done(p) /\ Repeated(p)) =>
        /\ call[p].ret = call[p].pred.ret
        /\ call[p].listCalls = <<>>
        /\ call[p].nGetRepo = 0

\* C5: with a store that holds only what earlier calls wrote, a visibility
\* resolution over M candidates of which N have a stored r:<ID> entry makes
\* exactly M-N GetRepositoryByNodeID calls, none of them for a candidate
\* with a stored entry.
C5_FetchOnlyUncached ==
    \A p \in Procs : (faults = 0 /\ Returned(p) /\ call[p].visibilityFor # {}) =>
        /\ call[p].nGetRepo =
              Cardinality(call[p].visibilityFor) - Cardinality(call[p].storedAtRead)
        /\ call[p].getRepoIDs \cap call[p].storedAtRead = {}

\* C6: the batch read looks a candidate's visibility up under the key
\* r:<ID> that setCachedPublicRepos writes it under, and the explicit set is
\* read and written under u:<AccountID>.
C6_SameKeys ==
    \A p \in Procs :
        /\ call[p].getMultiKeys =
              {PublicSetKey(r.ExternalRepoSpec.ID) : r \in call[p].getMultiFor}
        /\ \A i \in DOMAIN call[p].cacheGets :
              call[p].cacheGets[i] = "u:" \o call[p].userAccount.AccountID
        /\ \A i \in DOMAIN call[p].cacheSets :
              call[p].cacheSets[i] = "u:" \o call[p].userAccount.AccountID

\* The call of p has touched neither the cache nor the remote host.
Untouched(p) ==
    /\ call[p].cacheGets = <<>> /\ call[p].cacheSets = <<>>
    /\ call[p].nGetMulti = 0 /\ call[p].nSetMulti = 0
    /\ call[p].listCalls = <<>> /\ call[p].nGetRepo = 0

\* C7 as stated: a call with no candidates returns an empty map without any
\* cache read or write and without any remote call.
C7_EmptyTouchesNothing ==
    \A p \in Procs : (Done(p) /\ call[p].repos = {}) =>
        /\ Returned(p) /\ call[p].ret.perms = EmptyMap
        /\ Untouched(p)

\* C7 (amended): a call with no candidates makes no batch cache read, no
\* batch cache write and no GetRepositoryByNodeID call, and a map it returns
\* is empty; it does resolve explicit access first (one Get of u:<AccountID>
\* and, on a miss, the page walk and the Set of u:<AccountID>) and returns
\* the error of that resolution when it fails.
C7_EmptyNoVisibility ==
    \A p \in Procs : (call[p].pc # "idle" /\ call[p].repos = {}) =>
        /\ call[p].nGetMulti = 0 /\ call[p].nSetMulti = 0 /\ call[p].nGetRepo = 0
        /\ Done(p) =>
              /\ call[p].cacheGets = <<ExplicitKey(call[p].userAccount.AccountID)>>
              /\ Returned(p) => call[p].ret.perms = EmptyMap
              /\ Returned(p) <=> call[p].failedAt = ""
              /\ call[p].explicitFrom = "remote" /\ Returned(p) =>
                    /\ call[p].listCalls # <<>>
                    /\ call[p].cacheSets = <<ExplicitKey(call[p].userAccount.AccountID)>>

\* A call with no candidates has returned the empty map after walking the
\* pages of an account that has explicit repositories.
C7_Witness ==
    \E p \in Procs :
        /\ Returned(p) /\ call[p].repos = {}
        /\ call[p].listCalls # <<>> /\ call[p].explicitRepos # {}
        /\ call[p].ret.perms = EmptyMap

\* The pages 1..n in increasing order.
PagesUpTo(n) == [i \in 1..n |-> i]

\* C8: a call that finds no u:<AccountID> entry and whose page walk does not
\* fail makes one ListViewerRepositories call per page of the account's
\* list, for pages 1..P in increasing order, and writes the account's key
\* exactly once; while it walks, the pages asked for are 1..k, k <= P.
C8_OneCallPerPage ==
    \A p \in Procs :
        LET c == call[p]
            P == Len(ghPages[c.tok])
        IN  c.explicitFrom = "remote" =>
              /\ c.listCalls = PagesUpTo(Len(c.listCalls)) /\ Len(c.listCalls) <= P
              /\ (Done(p) /\ c.failedAt # "ListViewerRepositories") =>
                    /\ c.listCalls = PagesUpTo(P)
                    /\ c.cacheSets = <<ExplicitKey(c.userAccount.AccountID)>>
                    /\ c.explicitRepos =
                          UNION {githubRepoIDs(ghPages[c.tok][k]) :
                                    k \in 1..P}

\* A call has walked a list of more than one page and written the key.
C8_Witness ==
    \E p \in Procs :
        /\ Done(p) /\ call[p].explicitFrom = "remote"
        /\ Len(call[p].listCalls) >= 2
        /\ call[p].cacheSets # <<>>

\* C9: a call in which a step failed returns an error and no map; a call
\* that returns a map returns no error, had no failing step, and the map
\* decides every candidate of this provider: each is explicit or was looked
\* up by publicRepos, and the entries are exactly the explicit and the
\* public ones.
C9_ErrorMeansNoMap ==
    \A p \in Procs : Done(p) =>
        LET c == call[p]
        IN  /\ c.failedAt # "" => (c.ret.err # "" /\ c.ret.permsNil)
            /\ c.ret.err # "" => c.ret.permsNil
            /\ ~c.ret.permsNil =>
                  /\ c.ret.err = "" /\ c.failedAt = ""
                  /\ \A r \in Repos(c.repos) :
                        Explicit(p, r) \/ r.ExternalRepoSpec.ID \in DOMAIN c.publicRepos
                  /\ DOMAIN c.ret.perms =
                        {r.RepoName : r \in {q \in Repos(c.repos) :
                            Explicit(p, q) \/ ReportedPublic(p, q)}}

\* A call has returned an error although it had already fetched the
\* visibility of a public candidate.
C9_Witness ==
    \E p \in Procs :
        /\ Done(p) /\ call[p].failedAt = "GetRepositoryByNodeID"
        /\ \E id \in DOMAIN call[p].missingIsPublic : call[p].missingIsPublic[id]
        /\ call[p].ret.permsNil

\* C10: a batch read that gives a number of slots other than the number of
\* keys ends the call: it returns the cardinality error and no map, makes
\* no GetRepositoryByNodeID call and no batch write.
C10_ShortReadIsFatal ==
    \A p \in Procs : call[p].failedAt = "GetMulti" =>
        /\ Done(p)
        /\ call[p].ret.err = "number of cache items did not match number of keys"
        /\ call[p].ret.permsNil
        /\ call[p].nGetRepo = 0 /\ call[p].getRepoIDs = {}
        /\ call[p].nSetMulti = 0 /\ call[p].setMultiKeys = {}

\* A call has ended on a short batch read.
C10_Witness ==
    \E p \in Procs :
        /\ Done(p) /\ call[p].failedAt = "GetMulti"
        /\ call[p].nGetMulti = 1 /\ Cardinality(call[p].getMultiKeys) >= 2

\* The Get of u:<AccountID> of the call of p found no entry.
Missed(p) == call[p].cacheGets # <<>> /\ call[p].uEntry = NilBytes

\* The account data of the call of p decodes and holds no access token, or
\* an empty one.
NoUsableToken(p) ==
    LET data == call[p].userAccount.AccountData
    IN  /\ data.json = "object"
        /\ ("AccessToken" \notin DOMAIN data \/ data.AccessToken = "")

\* C11: a call that finds no u:<AccountID> entry for an account without an
\* access token, or with an empty one, has returned the missing-credential
\* error and no map, has made no remote call and has written nothing to the
\* cache.
C11_MissingCredential ==
    \A p \in Procs : (Missed(p) /\ NoUsableToken(p)) =>
        /\ Done(p)
        /\ call[p].ret.err = "no access token found for user"
        /\ call[p].ret.permsNil
        /\ call[p].listCalls = <<>> /\ call[p].nGetRepo = 0
        /\ call[p].cacheSets = <<>> /\ call[p].nSetMulti = 0
        /\ call[p].nGetMulti = 0

\* A call for an account with an empty token has ended on the missing entry.
C11_Witness ==
    \E p \in Procs :
        /\ Done(p) /\ Missed(p)
        /\ call[p].userAccount.AccountData = AuthData("")
        /\ call[p].repos # {}

\* The Get of u:<AccountID> of the call of p gave an entry that decodes and
\* is older than the TTL recorded in it.
StaleHit(p) ==
    /\ call[p].cacheGets # <<>>
    /\ call[p].uEntry # NilBytes /\ call[p].uEntry.json = "object"
    /\ call[p].uAge > call[p].uEntry.TTL

\* C12: a call that reads a u:<AccountID> entry older than the TTL recorded
\* in it treats the entry as a miss: it does not take explicitRepos from the
\* entry and goes to the remote host for them.
C12_StaleEntryIsMiss ==
    \A p \in Procs : (Done(p) /\ StaleHit(p)) =>
        /\ call[p].explicitFrom # "cache"
        /\ call[p].listCalls # <<>> \/ call[p].failedAt = "credential"

\* The IDs on the pages the remote host holds for the account.
ListedFor(accountID) ==
    LET pages == ghPages[TokenOf(accountID)]
    IN  UNION {{pages[k][i].ID : i \in DOMAIN pages[k]} : k \in DOMAIN pages}

\* What RepoPerms returns for the account and the candidates when it runs
\* alone on an empty store and no step fails: Read on the candidates of the
\* provider's code host that the host lists for the account or holds public.
Alone(userAccount, repos) ==
    LET mine == {r \in repos :
                    /\ r.ExternalRepoSpec.ServiceType = GitHubService.ServiceType
                    /\ r.ExternalRepoSpec.ServiceID = GitHubService.ServiceID}
        readable == {r \in mine :
                        \/ r.ExternalRepoSpec.ID \in ListedFor(userAccount.AccountID)
                        \/ r.ExternalRepoSpec.ID \notin ghPrivate}
    IN  [permsNil |-> FALSE,
         perms |-> [n \in {r.RepoName : r \in readable} |-> [Read |-> TRUE]],
         err |-> ""]

\* C13: under every interleaving of calls on one shared store, a call reads
\* and writes no u: key but the one of its own account, a call none of
\* whose steps fails returns what it returns running alone, and a call one
\* of whose steps fails returns an error and no map.
C13_Independent ==
    \A p \in Procs :
        LET c == call[p]
            own == "u:" \o c.userAccount.AccountID
        IN  /\ \A i \in DOMAIN c.cacheGets : c.cacheGets[i] = own
            /\ \A i \in DOMAIN c.cacheSets : c.cacheSets[i] = own
            /\ \A k \in c.getMultiKeys \cup c.setMultiKeys :
                  k \notin {"u:" \o a : a \in AccountIDs}
            /\ (Done(p) /\ c.failedAt = "") => c.ret = Alone(c.userAccount, c.repos)
            /\ (Done(p) /\ c.failedAt # "") => (c.ret.permsNil /\ c.ret.err # "")

\* Two calls for different accounts that overlapped have both returned a
\* map, each after walking the pages of its account and writing its key.
C13_Witness ==
    \E p, q \in Procs :
        /\ call[p].userAccount.AccountID # call[q].userAccount.AccountID
        /\ Returned(p) /\ Returned(q)
        /\ call[p].overlapped /\ call[q].overlapped
        /\ call[p].cacheSets # <<>> /\ call[q].cacheSets # <<>>
        /\ call[p].repos = {RepoA, RepoB, RepoC} /\ call[q].repos = {RepoA, RepoB, RepoC}
        /\ call[p].ret # call[q].ret

\* The candidates of the call of p that the partitioner assigns to this
\* provider, and the others.
Owned(p) == GetCodeHostRepos(GitHubService, call[p].repos)
NotOwned(p) == call[p].repos \ Owned(p)

\* C14: a returned map has entries for names of owned candidates only, and
\* no batch read key and no GetRepositoryByNodeID call is made for a
\* candidate that is not owned, whether or not its ID is in explicitRepos.
C14_NonOwnedIgnored ==
    \A p \in Procs :
        /\ Returned(p) => DOMAIN call[p].ret.perms \subseteq {r.RepoName : r \in Owned(p)}
        /\ call[p].getMultiFor \subseteq Owned(p)
        /\ call[p].visibilityFor \subseteq Owned(p)
        /\ \A r \in NotOwned(p) :
              /\ PublicGetKey(r) \notin call[p].getMultiKeys
              /\ ("r:" \o r.ExternalRepoSpec.ID) \notin call[p].getMultiKeys
              /\ r.ExternalRepoSpec.ID \notin call[p].getRepoIDs
              /\ ("r:" \o r.ExternalRepoSpec.ID) \notin call[p].setMultiKeys

\* A call has returned a map for an owned and a non-owned candidate, the ID
\* of the non-owned one being in explicitRepos, after resolving visibility.
C14_Witness ==
    \E p \in Procs :
        /\ Returned(p) /\ call[p].nGetRepo >= 1
        /\ \E r \in NotOwned(p) : Explicit(p, r)
        /\ Owned(p) # {}

\* The step changes the entry under k: adds it, drops it or replaces its bytes.
Changes(k) ==
    \/ (k \in DOMAIN cache) # (k \in DOMAIN cache')
    \/ k \in DOMAIN cache /\ k \in DOMAIN cache' /\ cache'[k] # cache[k]

\* The call of p takes the step, and k is a key the call may write: the
\* u: key of its account, or the r: key of an ID of one of its candidates
\* that it has fetched with GetRepositoryByNodeID.
MayWrite(p, k) ==
    /\ call'[p] # call[p]
    /\ \/ k = "u:" \o call[p].userAccount.AccountID
       \/ \E r \in call[p].repos :
             /\ k = "r:" \o r.ExternalRepoSpec.ID
             /\ r.ExternalRepoSpec.ID \in call[p].getRepoIDs
             /\ r.ExternalRepoSpec.ID \in DOMAIN call[p].missingIsPublic

\* C15: a step of a RepoPerms call (any step in which the store does not
\* misbehave) drops no entry of the cache and changes only entries the call
\* may write; every other entry is left as it is.
C15_WritesOnlyOwnKeys ==
    [][faults' = faults =>
          /\ DOMAIN cache \subseteq DOMAIN cache'
          /\ \A k \in DOMAIN cache' : Changes(k) => \E p \in Procs : MayWrite(p, k)]_vars

\* A call has written its u: key and r: keys beside an entry that is not its.
C15_Witness ==
    \E p \in Procs :
        /\ Returned(p) /\ call[p].cacheSets # <<>> /\ call[p].setMultiKeys # {}
        /\ \E k \in DOMAIN cache :
              /\ k \notin call[p].setMultiKeys
              /\ k # ExplicitKey(call[p].userAccount.AccountID)

\* C16: a call one of whose page requests failed has returned the transport
\* error and no map; the failing page is the last one it asked for, it has
\* written no u: entry, and it has gone on to no visibility step.
C16_PageFailureAborts ==
    \A p \in Procs : call[p].failedAt = "ListViewerRepositories" =>
        /\ Done(p)
        /\ call[p].ret.err = "transport" /\ call[p].ret.permsNil
        /\ call[p].listCalls = PagesUpTo(Len(call[p].listCalls))
        /\ Len(call[p].listCalls) = call[p].page
        /\ call[p].cacheSets = <<>>
        /\ call[p].nGetMulti = 0 /\ call[p].nGetRepo = 0 /\ call[p].nSetMulti = 0

\* A call has ended on a failing second page, with repositories of the
\* first page in hand and no u: entry in the store.
C16_Witness ==
    \E p \in Procs :
        /\ Done(p) /\ call[p].failedAt = "ListViewerRepositories"
        /\ call[p].listCalls = <<1, 2>>
        /\ Len(call[p].ghRepos) >= 1
        /\ ExplicitKey(call[p].userAccount.AccountID) \notin DOMAIN cache

\* C17: a call one of whose GetRepositoryByNodeID requests failed has
\* returned the transport error and no map, has asked for no further
\* repository and has made no batch write: none of the visibilities it
\* fetched before the failure is in the store under its r: key.
C17_FetchFailureAborts ==
    \A p \in Procs : call[p].failedAt = "GetRepositoryByNodeID" =>
        /\ Done(p)
        /\ call[p].ret.err = "transport" /\ call[p].ret.permsNil
        /\ call[p].nSetMulti = 0 /\ call[p].setMultiKeys = {}
        /\ call[p].nGetRepo = Cardinality(DOMAIN call[p].missingIsPublic) + 1
        /\ (faults = 0 /\ ~call[p].pred.valid /\ calls = 1) =>
              \A id \in DOMAIN call[p].missingIsPublic : ("r:" \o id) \notin DOMAIN cache

\* A call has ended on a failing request after two requests that succeeded.
C17_Witness ==
    \E p \in Procs :
        /\ Done(p) /\ call[p].failedAt = "GetRepositoryByNodeID"
        /\ call[p].nGetRepo = 3
        /\ Cardinality(DOMAIN call[p].missingIsPublic) = 2
        /\ call[p].nSetMulti = 0

\* The non-explicit bucket of the call of p: its owned candidates whose ID
\* is not in explicitRepos.
Bucket(p) == {r \in Owned(p) : ~Explicit(p, r)}

\* C18: no batch read key and no GetRepositoryByNodeID call is made for an
\* owned candidate whose ID is in explicitRepos; with an empty bucket the
\* call makes no visibility step at all; a batch read is over exactly the
\* bucket, and a call that returns a map with a non-empty bucket has made
\* one; with no explicit repositories the bucket is every owned candidate.
C18_VisibilityForBucket ==
    \A p \in Procs :
        LET c == call[p]
        IN  /\ \A r \in Owned(p) : Explicit(p, r) =>
                  /\ r \notin c.getMultiFor /\ r \notin c.visibilityFor
                  /\ PublicGetKey(r) \notin c.getMultiKeys
                  /\ ("r:" \o r.ExternalRepoSpec.ID) \notin c.getMultiKeys
                  /\ r.ExternalRepoSpec.ID \notin c.getRepoIDs
            /\ c.getRepoIDs \subseteq {r.ExternalRepoSpec.ID : r \in Bucket(p)}
            /\ Bucket(p) = {} =>
                  c.nGetMulti = 0 /\ c.nGetRepo = 0 /\ c.nSetMulti = 0
            /\ c.nGetMulti >= 1 => (c.nGetMulti = 1 /\ c.getMultiFor = Bucket(p))
            /\ (Returned(p) /\ Bucket(p) # {}) =>
                  (c.nGetMulti = 1 /\ c.getMultiFor = Bucket(p))
            /\ (Returned(p) /\ c.explicitRepos = {} /\ Owned(p) # {}) =>
                  c.getMultiFor = Owned(p)

\* A call with an explicit candidate and two others has returned a map
\* after asking the remote host about the two others.
C18_Witness ==
    \E p \in Procs :
        /\ Returned(p)
        /\ \E r \in Owned(p) : Explicit(p, r)
        /\ Cardinality(Bucket(p)) = 2
        /\ call[p].getRepoIDs = {r.ExternalRepoSpec.ID : r \in Bucket(p)}

\* The call of p has begun visibility resolution.
InVisibility(p) ==
    \/ call[p].pc \in {"getCachedPublicRepos", "fetchPublicRepos", "setCachedPublicRepos"}
    \/ call[p].nGetMulti > 0 \/ call[p].nGetRepo > 0 \/ call[p].nSetMulti > 0

\* C19: from the moment a call begins visibility resolution, its explicit
\* resolution is complete and stays as it is: one Get of its u: key and
\* either the set of the entry with no page request and no Set, or a walk of
\* all the pages of the account followed by one Set of its u: key.
C19_ExplicitBeforeVisibility ==
    \A p \in Procs : InVisibility(p) =>
        LET c == call[p]
            own == "u:" \o c.userAccount.AccountID
        IN  /\ c.cacheGets = <<own>>
            /\ c.explicitFrom \in {"cache", "remote"}
            /\ c.explicitFrom = "cache" =>
                  (c.listCalls = <<>> /\ c.cacheSets = <<>>)
            /\ c.explicitFrom = "remote" =>
                  /\ c.listCalls = PagesUpTo(Len(ghPages[c.tok]))
                  /\ c.cacheSets = <<own>>
                  /\ c.explicitRepos = {c.ghRepos[i].ID : i \in DOMAIN c.ghRepos}

\* A call is fetching visibility after a walk of two pages and the Set.
C19_Witness ==
    \E p \in Procs :
        /\ call[p].pc = "fetchPublicRepos" /\ call[p].nGetRepo >= 1
        /\ call[p].listCalls = <<1, 2>>
        /\ call[p].cacheSets # <<>>

\* The Get of u:<AccountID> of the call of p gave an entry that decodes.
Hit(p) ==
    /\ call[p].cacheGets # <<>>
    /\ call[p].uEntry # NilBytes /\ call[p].uEntry.json = "object"

\* C20: a call whose Get of u:<AccountID> gives an entry that decodes takes
\* the IDs of the entry as explicitRepos, makes no ListViewerRepositories
\* call and no Set of the u: key.
C20_HitSkipsWalk ==
    \A p \in Procs : Hit(p) =>
        /\ call[p].explicitRepos = call[p].uEntry.ProjIDs
        /\ call[p].explicitFrom = "cache"
        /\ call[p].listCalls = <<>>
        /\ call[p].cacheSets = <<>>
        /\ Returned(p) =>
              \A r \in Owned(p) :
                  r.ExternalRepoSpec.ID \in call[p].uEntry.ProjIDs => Granted(p, r)

\* A call has returned a map that grants a private candidate from the
\* entry the call before it wrote.
C20_Witness ==
    \E p \in Procs :
        /\ Returned(p) /\ Hit(p) /\ call[p].pred.valid
        /\ \E r \in Owned(p) :
              /\ r.ExternalRepoSpec.ID \in call[p].uEntry.ProjIDs
              /\ r.ExternalRepoSpec.ID \in ghPrivate
              /\ Granted(p, r)

\* The IDs of the candidates publicRepos was called with by the call of p.
AskedIDs(p) == {r.ExternalRepoSpec.ID : r \in call[p].visibilityFor}

\* C21: the map publicRepos returned to a call that returns a map has an
\* entry for exactly the candidates it was given; it is the union of the
\* entries the batch read gave and the entries fetched, which do not
\* overlap; and the batch write, made when anything was missing, wrote the
\* r: keys of exactly the fetched entries.
C21_UnionCoversCandidates ==
    \A p \in Procs : (Returned(p) /\ call[p].visibilityFor # {}) =>
        LET c == call[p]
            fetched == DOMAIN c.missingIsPublic
        IN  /\ DOMAIN c.publicRepos = AskedIDs(p)
            /\ DOMAIN c.publicRepos = c.hitsAtRead \cup fetched
            /\ c.hitsAtRead \cap fetched = {}
            /\ fetched = c.getRepoIDs
            /\ \A id \in c.hitsAtRead : c.publicRepos[id] = c.cachedIsPublic[id]
            /\ \A id \in fetched : c.publicRepos[id] = (id \notin ghPrivate)
            /\ c.setMultiKeys = {"r:" \o id : id \in fetched}
            /\ c.nSetMulti = IF fetched = {} THEN 0 ELSE 1

\* A call has returned a map after a batch read that gave the entry of one
\* candidate and the fetch of two others.
C21_Witness ==
    \E p \in Procs :
        /\ Returned(p)
        /\ Cardinality(call[p].hitsAtRead) = 1
        /\ Cardinality(DOMAIN call[p].missingIsPublic) = 2
        /\ call[p].nSetMulti = 1

\* The Get of u:<AccountID> of the call of p gave bytes that do not decode.
MalformedExplicit(p) ==
    /\ call[p].cacheGets # <<>>
    /\ call[p].uEntry # NilBytes /\ call[p].uEntry.json # "object"

\* C22: a call that meets a payload that does not decode, under its
\* u:<AccountID> key or under the r:<RepoID> key of a candidate whose
\* visibility it resolves, returns the decoding error and no map, asks the
\* remote host for nothing in its place and writes nothing over it.
C22_MalformedIsFatal ==
    \A p \in Procs :
        /\ (Done(p) /\ MalformedExplicit(p)) =>
              /\ call[p].ret.err = "json" /\ call[p].ret.permsNil
              /\ call[p].listCalls = <<>> /\ call[p].cacheSets = <<>>
        /\ (Done(p) /\ call[p].malformedAtRead # {}) =>
              /\ call[p].ret.err = "json" /\ call[p].ret.permsNil
              /\ call[p].getRepoIDs \cap call[p].malformedAtRead = {}
              /\ call[p].nSetMulti = 0

\* A visibility step of the call of p has failed.
VisibilityFailed(p) ==
    call[p].failedAt \in {"GetMulti", "unmarshal publicRepoCacheVal",
                          "GetRepositoryByNodeID"}

\* C23: a call whose Get of u:<AccountID> gives an entry that decodes never
\* looks at the account data: for an account without an access token, with
\* an empty one, or with data that does not decode, it does not end on the
\* credential, it holds no token, and unless a visibility step fails it
\* returns a map that grants Read on every owned candidate of the entry.
C23_TokenOnlyOnMiss ==
    \A p \in Procs :
        (Hit(p) /\ call[p].userAccount.AccountData
                      \in {AuthData(""), NoAuthData, BadAuthData}) =>
            /\ call[p].failedAt # "credential"
            /\ call[p].tok = ""
            /\ call[p].ret.err \notin {"no access token found for user"}
            /\ (Done(p) /\ ~VisibilityFailed(p)) =>
                  /\ Returned(p)
                  /\ \A r \in Owned(p) :
                        r.ExternalRepoSpec.ID \in call[p].uEntry.ProjIDs => Granted(p, r)

\* A call for an account with an empty token has returned a map granting a
\* private candidate out of the entry an earlier call wrote.
C23_Witness ==
    \E p \in Procs :
        /\ Returned(p) /\ Hit(p)
        /\ call[p].userAccount.AccountData = AuthData("")
        /\ call[p].uEntry = MarshalCacheVal({"a", "x"}, cacheTTL)
        /\ Granted(p, RepoA)

\* C24: every call under way ends, with a map or with an error; its page
\* requests never go past the last page of the account's list, and a page
\* that fails or reports no next page is the last one it asks for.
C24_Terminates ==
    /\ \A p \in Procs : UnderWay(p) ~> Done(p)
    /\ [](\A p \in Procs :
            /\ Done(p) => (Returned(p) \/ (call[p].ret.err # "" /\ call[p].ret.permsNil))
            /\ call[p].listCalls # <<>> =>
                  /\ Len(call[p].listCalls) <= Len(ghPages[call[p].tok])
                  /\ call[p].listCalls = PagesUpTo(Len(call[p].listCalls))
            /\ call[p].pc = "ListViewerRepositories" =>
                  /\ call[p].failedAt = ""
                  /\ Len(call[p].listCalls) < Len(ghPages[call[p].tok]))

\* A call has ended after a walk of two pages and two visibility requests.
C24_Witness ==
    \E p \in Procs :
        /\ Done(p)
        /\ Len(call[p].listCalls) = 2
        /\ call[p].nGetRepo = 2

\* The calls of p and q are for the same account and the same candidates,
\* and each was under way during the other.
Racing(p, q) ==
    /\ p # q
    /\ call[p].overlapped /\ call[q].overlapped
    /\ call[p].userAccount = call[q].userAccount
    /\ call[p].repos = call[q].repos

\* C25: under every interleaving of calls on one shared store, a
\* u:<AccountID> entry in the store holds the IDs of all the pages of the
\* account's list, as one full walk gives them, with the provider's TTL;
\* and of two racing calls for one account that both end without a failing
\* step, each returns the same map, the one a lone call returns.
C25_WholeWalkStored ==
    /\ \A a \in AccountIDs : ("u:" \o a) \in DOMAIN cache =>
          cache["u:" \o a] = [json |-> "object", ProjIDs |-> ListedFor(a), TTL |-> cacheTTL]
    /\ \A p, q \in Procs :
          (Racing(p, q) /\ Done(p) /\ Done(q)
              /\ call[p].failedAt = "" /\ call[q].failedAt = "") =>
              /\ call[p].ret = call[q].ret
              /\ call[p].ret = Alone(call[p].userAccount, call[p].repos)

\* Two racing calls for one account have both walked the two pages of its
\* list, both written its key, and both returned a map.
C25_Witness ==
    \E p, q \in Procs :
        /\ Racing(p, q) /\ Returned(p) /\ Returned(q)
        /\ call[p].listCalls = <<1, 2>> /\ call[q].listCalls = <<1, 2>>
        /\ call[p].cacheSets # <<>> /\ call[q].cacheSets # <<>>
        /\ call[p].ret.perms # EmptyMap

====
